---- MODULE Spec2Model ----
(***************************************************************************)
(* A model of the RDAPLookup component of src/src/App.tsx: the component   *)
(* state (five useState cells), the asynchronous fetchRDAP handler split   *)
(* at its two awaits, the formatRDAPResult text report and the             *)
(* handleDownload export.                                                  *)
(*                                                                         *)
(* A JavaScript object is a record whose DOMAIN is the set of the fields   *)
(* that are present; an absent field is a field outside the DOMAIN.  null  *)
(* is the empty tuple.  The text report is a sequence of lines, a line     *)
(* being the tuple of the segments of its template literal.                *)
(***************************************************************************)
EXTENDS Integers, Sequences, FiniteSets, TLC

VARIABLES
    domain,      \* useState("")       : the text of the input field
    loading,     \* useState(false)
    error,       \* useState("")
    result,      \* useState(null)     : Null or the parsed response
    searched,    \* useState(false)
    lookups,     \* the fetchRDAP invocations that issued a request, in order
                 \* of their start: the domain their closure captured, the
                 \* await they are suspended at, and the parsed body once read
    requests,    \* the URLs handed to fetch(), in order
    calls,       \* the number of fetchRDAP invocations so far
    resultFrom,  \* the lookup whose setResult(data) wrote result (0: none)
    saved        \* the file last handed to the browser by handleDownload

vars == <<domain, loading, error, result, searched, lookups, requests, calls,
          resultFrom, saved>>

\* ---------------------------------------------------------------- bounds
MaxCalls == 2
MaxEntities == 2
MaxNameservers == 2

\* ------------------------------------------------------------ JS values
Null == <<>>

Has(o, f) == f \in DOMAIN o

\* o.f || "N/A" for a string field: undefined and "" are both falsy
OrNA(s) == IF s = "" THEN "N/A" ELSE s

\* `${o.f}` for a string field that may be absent
Str(o, f) == IF Has(o, f) THEN o[f] ELSE "undefined"

\* o.f || "N/A" for a string field that may be absent
FieldOrNA(o, f) == IF Has(o, f) THEN OrNA(o[f]) ELSE "N/A"

RECURSIVE Join(_, _)
\* Array.prototype.join on an array of strings
Join(a, sep) ==
    IF Len(a) = 0 THEN ""
    ELSE IF Len(a) = 1 THEN a[1]
    ELSE a[1] \o sep \o Join(Tail(a), sep)

\* o.f?.join(", ") || "N/A" for a list field that may be absent
ListOrNA(o, f) == IF Has(o, f) THEN OrNA(Join(o[f], ", ")) ELSE "N/A"

\* ------------------------------------------------- JSON values of a vCard
\* Inside vcardArray the code tests Array.isArray at run time, so a value
\* there carries its kind: [str |-> s] is a string, [arr |-> a] an array.
IsArray(v) == Has(v, "arr")

RECURSIVE ToStr(_)
\* `${value}`: a string as it is, an array as its elements joined by ","
ToStr(v) ==
    IF IsArray(v)
    THEN Join([i \in 1..Len(v.arr) |-> ToStr(v.arr[i])], ",")
    ELSE v.str

\* Boolean(value): "" is falsy, a non-empty string and any array are truthy
Truthy(v) == IsArray(v) \/ v.str # ""

RECURSIVE FilterTruthy(_)
\* value.filter(Boolean)
FilterTruthy(a) ==
    IF Len(a) = 0 THEN <<>>
    ELSE IF Truthy(Head(a)) THEN <<Head(a)>> \o FilterTruthy(Tail(a))
    ELSE FilterTruthy(Tail(a))

\* ------------------------------------------------------ formatRDAPResult
RECURSIVE Flatten(_)
\* the concatenation of a sequence of line blocks (output += ... in a forEach)
Flatten(blocks) ==
    IF Len(blocks) = 0 THEN <<>> ELSE Head(blocks) \o Flatten(Tail(blocks))

HeaderLines(data) ==
    << <<"=== RDAP Domain Lookup Result ===">>,
       <<"Domain Name: ", FieldOrNA(data, "ldhName")>>,
       <<"Handle: ", FieldOrNA(data, "handle")>>,
       <<"Status: ", ListOrNA(data, "status")>>,
       <<"Whois Server: ", FieldOrNA(data, "port43")>>,
       <<"Lang: ", FieldOrNA(data, "lang")>> >>

\* new Date(s).toLocaleString() in the en-US locale, UTC: the dates the model
\* feeds it, and "Invalid Date" for every string Date cannot parse
ToLocaleString(s) ==
    IF s = "2024-01-02T03:04:05Z" THEN "1/2/2024, 3:04:05 AM"
    ELSE IF s = "1999-12-31T23:59:59Z" THEN "12/31/1999, 11:59:59 PM"
    ELSE "Invalid Date"

EventLines(data) ==
    IF Has(data, "events") /\ Len(data.events) > 0
    THEN << <<"">>, <<"--- Important Dates ---">> >> \o
         [i \in 1..Len(data.events) |->
            <<Str(data.events[i], "eventAction"), ": ",
              ToLocaleString(Str(data.events[i], "eventDate"))>>]
    ELSE <<>>

ContactRoles == <<"registrant", "technical", "registrar">>

IsContactRole(role) ==
    role = "registrant" \/ role = "technical" \/ role = "registrar"

RECURSIVE AssignRolesKeepFirst(_, _, _)
\* the reduce step keeping the first entity of a role instead of the last
AssignRolesKeepFirst(acc, entity, roles) ==
    IF Len(roles) = 0 THEN acc
    ELSE AssignRolesKeepFirst(
            IF IsContactRole(Head(roles)) /\ ~Has(acc, Head(roles))
            THEN [r \in DOMAIN acc \cup {Head(roles)} |->
                    IF r = Head(roles) THEN entity ELSE acc[r]]
            ELSE acc,
            entity, Tail(roles))

RECURSIVE AssignRoles(_, _, _)
\* entity.roles.forEach(role => { if (...) acc[role] = entity })
AssignRoles(acc, entity, roles) ==
    IF Len(roles) = 0 THEN acc
    ELSE AssignRoles(
            IF IsContactRole(Head(roles))
            THEN [r \in DOMAIN acc \cup {Head(roles)} |->
                    IF r = Head(roles) THEN entity ELSE acc[r]]
            ELSE acc,
            entity, Tail(roles))

RECURSIVE Reduce(_, _)
\* data.entities.reduce((acc, entity) => ..., acc)
Reduce(acc, entities) ==
    IF Len(entities) = 0 THEN acc
    ELSE Reduce(
            IF Has(Head(entities), "roles")
            THEN AssignRoles(acc, Head(entities), Head(entities).roles)
            ELSE acc,
            Tail(entities))

EmptyObject == [r \in {} |-> Null]

groupedEntities(data) == Reduce(EmptyObject, data.entities)

ToUpperCase(role) ==
    IF role = "registrant" THEN "REGISTRANT"
    ELSE IF role = "technical" THEN "TECHNICAL"
    ELSE "REGISTRAR"

\* one item of entity.vcardArray[1]
VCardItemLines(item) ==
    IF IsArray(item) /\ Len(item.arr) >= 4
    THEN LET prop  == item.arr[1]
             value == item.arr[4]
         IN  IF prop = [str |-> "fn"] THEN << <<"Name: ", ToStr(value)>> >>
             ELSE IF prop = [str |-> "org"]
                  THEN << <<"Organization: ", ToStr(value)>> >>
             ELSE IF prop = [str |-> "email"]
                  THEN << <<"Email: ", ToStr(value)>> >>
             ELSE IF prop = [str |-> "tel"]
                  THEN << <<"Phone: ", ToStr(value)>> >>
             ELSE IF prop = [str |-> "adr"] /\ IsArray(value)
                  THEN << <<"Address: ",
                            Join([i \in 1..Len(FilterTruthy(value.arr)) |->
                                    ToStr(FilterTruthy(value.arr)[i])], ", ")>> >>
             ELSE <<>>
    ELSE <<>>

VCardLines(entity) ==
    IF /\ Has(entity, "vcardArray")
       /\ Len(entity.vcardArray) >= 2
       /\ IsArray(entity.vcardArray[2])
    THEN Flatten([i \in 1..Len(entity.vcardArray[2].arr) |->
                    VCardItemLines(entity.vcardArray[2].arr[i])])
    ELSE <<>>

\* the body of ["registrant", "technical", "registrar"].forEach
ContactBlock(grouped, role) ==
    IF Has(grouped, role)
    THEN << <<"">>,
            <<ToUpperCase(role), " Contact:">>,
            <<"Handle: ", Str(grouped[role], "handle")>> >>
         \o VCardLines(grouped[role])
    ELSE <<>>

ContactLines(data) ==
    IF Has(data, "entities") /\ Len(data.entities) > 0
    THEN << <<"">>, <<"--- Contact Information ---">> >> \o
         Flatten([i \in 1..Len(ContactRoles) |->
                    ContactBlock(groupedEntities(data), ContactRoles[i])])
    ELSE <<>>

BoolStr(o, f) ==
    IF ~Has(o, f) THEN "undefined" ELSE IF o[f] THEN "true" ELSE "false"

NumStr(o, f) == IF Has(o, f) THEN ToString(o[f]) ELSE "undefined"

SecureDNSLines(data) ==
    IF Has(data, "secureDNS")
    THEN << <<"">>, <<"--- Secure DNS ---">>,
            <<"Delegation Signed: ", BoolStr(data.secureDNS, "delegationSigned")>> >>
         \o (IF Has(data.secureDNS, "dsData")
             THEN [i \in 1..Len(data.secureDNS.dsData) |->
                    <<"Key Tag: ", NumStr(data.secureDNS.dsData[i], "keyTag"),
                      ", Algorithm: ", NumStr(data.secureDNS.dsData[i], "algorithm"),
                      ", Digest: ", Str(data.secureDNS.dsData[i], "digest")>>]
             ELSE <<>>)
    ELSE <<>>

\* ns.ipAddresses?.v4?.join(", ") || "N/A"
AddressesOrNA(ns, family) ==
    IF Has(ns, "ipAddresses") THEN ListOrNA(ns.ipAddresses, family) ELSE "N/A"

NameserverBlock(ns) ==
    << <<"Nameserver: ", Str(ns, "ldhName")>>,
       <<"Handle: ", Str(ns, "handle")>>,
       <<"IPv4: ", AddressesOrNA(ns, "v4")>>,
       <<"IPv6: ", AddressesOrNA(ns, "v6")>>,
       <<"">> >>

NameserverLines(data) ==
    IF Has(data, "nameservers") /\ Len(data.nameservers) > 0
    THEN << <<"">>, <<"--- Nameservers ---">> >> \o
         Flatten([i \in 1..Len(data.nameservers) |->
                    NameserverBlock(data.nameservers[i])])
    ELSE <<>>

NoticeBlock(notice) ==
    << <<"Title: ", Str(notice, "title")>>,
       <<"Description: ", Join(notice.description, " ")>>,
       <<"">> >>

NoticeLines(data) ==
    IF Has(data, "notices") /\ Len(data.notices) > 0
    THEN << <<"">>, <<"--- Notices ---">> >> \o
         Flatten([i \in 1..Len(data.notices) |-> NoticeBlock(data.notices[i])])
    ELSE <<>>

formatRDAPResult(data) ==
    IF data = Null
    THEN << <<"Domain lookup failed or no data available.">> >>
    ELSE HeaderLines(data) \o EventLines(data) \o ContactLines(data)
         \o SecureDNSLines(data) \o NameserverLines(data) \o NoticeLines(data)

\* ------------------------------------------------- inputs of the model
\* what the user can type into the input field
Domains == {"", "a.com", "b.org"}

\* the keys pressed in the input field that matter to onKeyDown
Keys == {"Enter", "Tab"}

\* `https://rdap.org/domain/${domain}`
Url(d) == "https://rdap.org/domain/" \o d

\* what fetch() or response.json() can reject with
TypeError   == [isError |-> TRUE, message |-> "Failed to fetch"]
SyntaxError == [isError |-> TRUE, message |-> "Unexpected end of JSON input"]
NonError    == [isError |-> FALSE]
FetchThrown == {TypeError, NonError}
JsonThrown  == {SyntaxError}

\* throw new Error("Domain not found or RDAP lookup failed")
NotOkError == [isError |-> TRUE, message |-> "Domain not found or RDAP lookup failed"]

\* err instanceof Error ? err.message : "An error occurred"
ErrorMessage(err) == IF err.isError THEN err.message ELSE "An error occurred"

\* the object o with only the fields of S
Only(o, S) == [f \in S |-> o[f]]

SampleVCard ==
    << [str |-> "vcard"],
       [arr |-> << [arr |-> <<[str |-> "fn"], [str |-> ""], [str |-> "text"],
                              [str |-> "Jane Roe"]>>],
                   [arr |-> <<[str |-> "adr"], [str |-> ""], [str |-> "text"],
                              [arr |-> <<[str |-> ""], [str |-> "1 Main St"],
                                         [str |-> ""], [str |-> "Springfield"]>>]>>],
                   [arr |-> <<[str |-> "email"], [str |-> ""], [str |-> "text"]>>],
                   [arr |-> <<[str |-> "tel"], [str |-> ""], [str |-> "uri"],
                              [str |-> "tel:+1.5551234"]>>],
                   [arr |-> <<[str |-> "kind"], [str |-> ""], [str |-> "text"],
                              [str |-> "individual"]>>] >>] >>

FullHeader ==
    [ldhName |-> "EXAMPLE.COM", handle |-> "D1", status |-> <<"active">>,
     port43 |-> "whois.example", lang |-> "en"]

HeaderFields == {"ldhName", "handle", "status", "port43", "lang"}

\* every combination of present and absent header fields, the present ones
\* non-empty, plus the empty string, the empty list and a two-element list
HeaderVariants ==
    {Only(FullHeader, S) : S \in SUBSET HeaderFields}
    \cup {[FullHeader EXCEPT !.ldhName = ""],
          [FullHeader EXCEPT !.status = <<>>],
          [FullHeader EXCEPT !.status = <<"active", "locked">>],
          [FullHeader EXCEPT !.port43 = "", !.lang = ""]}

RoleLists == {<<"registrant">>, <<"technical">>, <<"registrar">>}

Entities ==
    {[handle |-> h, roles |-> r] : h \in {"E1", "E2"}, r \in RoleLists}
    \cup {[handle |-> "E1", roles |-> <<"registrar", "registrant">>],
          [handle |-> "E3", roles |-> <<"administrative">>],
          [handle |-> "E3"],
          [roles |-> <<"registrant">>],
          [handle |-> "E4", roles |-> <<"technical">>, vcardArray |-> SampleVCard],
          [handle |-> "E5", roles |-> <<"registrant">>,
           vcardArray |-> <<[str |-> "vcard"]>>]}

\* every entities list of at most MaxEntities entities
EntityVariants ==
    UNION {{FullHeader @@ [entities |-> es] :
                es \in [1..n -> Entities]} : n \in 0..MaxEntities}

Nameservers ==
    {[ldhName |-> "NS1.EXAMPLE.COM", handle |-> "N1",
      ipAddresses |-> [v4 |-> <<"192.0.2.1", "192.0.2.2">>,
                       v6 |-> <<"2001:db8::1">>]],
     [ldhName |-> "NS2.EXAMPLE.COM", handle |-> "N2",
      ipAddresses |-> [v4 |-> <<>>, v6 |-> <<>>]],
     [ldhName |-> "NS3.EXAMPLE.COM", handle |-> "N3",
      ipAddresses |-> [v6 |-> <<"2001:db8::3">>]],
     [ldhName |-> "NS4.EXAMPLE.COM", handle |-> "N4"],
     [ldhName |-> "NS5.EXAMPLE.COM", ipAddresses |-> [v4 |-> <<"192.0.2.5">>]],
     [handle |-> "N6", ipAddresses |-> EmptyObject]}

\* every nameservers list of at most MaxNameservers nameservers
NameserverVariants ==
    UNION {{FullHeader @@ [nameservers |-> nss] :
                nss \in [1..n -> Nameservers]} : n \in 0..MaxNameservers}

OtherVariants ==
    {FullHeader @@ [events |-> <<>>],
     FullHeader @@ [events |-> <<[eventAction |-> "registration",
                                  eventDate |-> "1999-12-31T23:59:59Z"],
                                 [eventAction |-> "expiration",
                                  eventDate |-> "2024-01-02T03:04:05Z"],
                                 [eventAction |-> "last changed",
                                  eventDate |-> "soon"]>>],
     FullHeader @@ [secureDNS |-> [delegationSigned |-> FALSE]],
     FullHeader @@ [secureDNS |-> [delegationSigned |-> TRUE,
                                   dsData |-> <<[keyTag |-> 12345, algorithm |-> 8,
                                                 digestType |-> 2,
                                                 digest |-> "ABCD"]>>]],
     FullHeader @@ [notices |-> <<>>],
     FullHeader @@ [notices |-> <<[title |-> "Terms of Use",
                                   description |-> <<"Line one.", "Line two.">>]>>]}

\* the response bodies the formatter is checked on
FmtResponses ==
    HeaderVariants \cup EntityVariants \cup NameserverVariants \cup OtherVariants

\* the response bodies the server answers with in the component's model
Responses ==
    {[ldhName |-> "A.COM", handle |-> "D1", port43 |-> "whois.example",
      lang |-> "en"],
     [ldhName |-> "B.ORG", status |-> <<"active">>,
      nameservers |-> <<[ldhName |-> "NS1.B.ORG"]>>]}

\* ------------------------------------------------------- the component
Init ==
    /\ domain = ""
    /\ loading = FALSE
    /\ error = ""
    /\ result = Null
    /\ searched = FALSE
    /\ lookups = <<>>
    /\ requests = <<>>
    /\ calls = 0
    /\ resultFrom = 0
    /\ saved = Null

\* onChange={(e) => setDomain(e.target.value)}
SetDomain(d) ==
    /\ d # domain
    /\ domain' = d
    /\ UNCHANGED <<loading, error, result, searched, lookups, requests, calls,
                   resultFrom, saved>>

\* fetchRDAP with the early return on an empty domain left out
FetchRDAPNoEarlyReturn(cap) ==
    /\ calls < cap
    /\ calls' = calls + 1
    /\ loading' = TRUE
    /\ error' = ""
    /\ result' = Null
    /\ resultFrom' = 0
    /\ searched' = TRUE
    /\ requests' = Append(requests, Url(domain))
    /\ lookups' = Append(lookups, [domain |-> domain, pc |-> "fetch"])
    /\ UNCHANGED <<domain, saved>>

\* fetchRDAP up to its first await: the early return, the four setters and
\* the call of fetch()
FetchRDAP(cap) ==
    /\ calls < cap
    /\ calls' = calls + 1
    /\ IF domain = ""
       THEN UNCHANGED <<loading, error, result, searched, lookups, requests,
                        resultFrom>>
       ELSE /\ loading' = TRUE
            /\ error' = ""
            /\ result' = Null
            /\ resultFrom' = 0
            /\ searched' = TRUE
            /\ requests' = Append(requests, Url(domain))
            /\ lookups' = Append(lookups, [domain |-> domain, pc |-> "fetch"])
    /\ UNCHANGED <<domain, saved>>

\* <button onClick={fetchRDAP} disabled={loading}>
ClickSearch(cap) ==
    /\ ~loading
    /\ FetchRDAP(cap)

\* onKeyDown={(e) => e.key === "Enter" && fetchRDAP()}
onKeyDown(key, cap) ==
    /\ key = "Enter"
    /\ FetchRDAP(cap)

\* the catch block with the finally block left out
CatchWithoutFinally(i, err) ==
    /\ error' = ErrorMessage(err)
    /\ lookups' = [lookups EXCEPT ![i].pc = "done"]
    /\ UNCHANGED <<domain, loading, result, searched, requests, calls,
                   resultFrom, saved>>

\* catch (err) { setError(...) } finally { setLoading(false) }
Catch(i, err) ==
    /\ error' = ErrorMessage(err)
    /\ loading' = FALSE
    /\ lookups' = [lookups EXCEPT ![i].pc = "done"]
    /\ UNCHANGED <<domain, result, searched, requests, calls, resultFrom, saved>>

\* fetch() resolves with response.ok: the lookup goes on to await response.json()
FetchOk(i) ==
    /\ lookups[i].pc = "fetch"
    /\ lookups' = [lookups EXCEPT ![i].pc = "json"]
    /\ UNCHANGED <<domain, loading, error, result, searched, requests, calls,
                   resultFrom, saved>>

\* fetch() resolves with !response.ok: the lookup throws and catches its Error
FetchNotOk(i) ==
    /\ lookups[i].pc = "fetch"
    /\ Catch(i, NotOkError)

\* fetch() rejects
FetchReject(i, err) ==
    /\ lookups[i].pc = "fetch"
    /\ Catch(i, err)

\* response.json() resolves: setResult(data), then finally setLoading(false)
JsonResolve(i, data) ==
    /\ lookups[i].pc = "json"
    /\ result' = data
    /\ resultFrom' = i
    /\ loading' = FALSE
    /\ lookups' = [lookups EXCEPT ![i].pc = "done"]
    /\ UNCHANGED <<domain, error, searched, requests, calls, saved>>

\* response.json() rejects
JsonReject(i, err) ==
    /\ lookups[i].pc = "json"
    /\ Catch(i, err)

\* the Download Result button, rendered only while result is set
handleDownload ==
    /\ result # Null
    /\ saved' = [download |-> domain \o "-rdap.txt",
                 text |-> formatRDAPResult(result)]
    /\ UNCHANGED <<domain, loading, error, result, searched, lookups, requests,
                   calls, resultFrom>>

\* the steps of the network and of the user other than starting a lookup
Settle(bodies) ==
    \/ \E d \in Domains : SetDomain(d)
    \/ \E i \in DOMAIN lookups : FetchOk(i)
    \/ \E i \in DOMAIN lookups : FetchNotOk(i)
    \/ \E i \in DOMAIN lookups, err \in FetchThrown : FetchReject(i, err)
    \/ \E i \in DOMAIN lookups, data \in bodies : JsonResolve(i, data)
    \/ \E i \in DOMAIN lookups, err \in JsonThrown : JsonReject(i, err)
    \/ handleDownload

Next ==
    \/ ClickSearch(MaxCalls)
    \/ \E key \in Keys : onKeyDown(key, MaxCalls)
    \/ Settle(Responses)

Spec == Init /\ [][Next]_vars

\* one lookup, answered with any of the bodies the formatter is checked on
NextFmt ==
    \/ ClickSearch(1)
    \/ \E key \in Keys : onKeyDown(key, 1)
    \/ Settle(FmtResponses)

SpecFmt == Init /\ [][NextFmt]_vars

\* the network settles every request it was handed: fetch() resolves or
\* rejects, and so does response.json()
FetchSettles(i) ==
    /\ i \in DOMAIN lookups
    /\ \/ FetchOk(i)
       \/ FetchNotOk(i)
       \/ \E err \in FetchThrown : FetchReject(i, err)

JsonSettles(i) ==
    /\ i \in DOMAIN lookups
    /\ \/ \E data \in Responses : JsonResolve(i, data)
       \/ \E err \in JsonThrown : JsonReject(i, err)

FairSpec ==
    /\ Spec
    /\ \A i \in 1..MaxCalls : WF_vars(FetchSettles(i)) /\ WF_vars(JsonSettles(i))

\* ======================================================================
\* Properties
\* ======================================================================
InFlight == {i \in DOMAIN lookups : lookups[i].pc # "done"}

\* C1: at most one lookup request is in flight at any time (fetchRDAP issues
\* no request while an earlier one has not completed), however the lookup
\* is triggered.
C1_SingleInFlight == Cardinality(InFlight) <= 1

\* C2: whenever result is non-null it is the response of the most recently
\* started lookup; a response of an earlier lookup is never stored after a
\* later lookup has started.
C2_ResultOfLatestLookup == result # Null => resultFrom = Len(lookups)

\* C3: whenever handleDownload exports a result, the file name is
\* "<d>-rdap.txt" where d is the domain that was queried to obtain that
\* result, even if the input field was edited since.
C3_FilenameOfQueriedDomain ==
    [][handleDownload =>
        saved'.download = lookups[resultFrom].domain \o "-rdap.txt"]_vars

\* the entity the Contact Information section renders for a role: the last
\* entity of the list that carries the role (0: no entity carries it)
LastWithRole(entities, role) ==
    LET carriers == {i \in DOMAIN entities :
                        /\ Has(entities[i], "roles")
                        /\ \E k \in DOMAIN entities[i].roles :
                                entities[i].roles[k] = role}
    IN  IF carriers = {} THEN 0
        ELSE CHOOSE i \in carriers : \A j \in carriers : j <= i

ContactHeading(role) ==
    IF role = "registrant" THEN <<"REGISTRANT", " Contact:">>
    ELSE IF role = "technical" THEN <<"TECHNICAL", " Contact:">>
    ELSE <<"REGISTRAR", " Contact:">>

LinesEqual(text, line) == {i \in DOMAIN text : text[i] = line}

\* the header fields of the report: the line each one is shown on
HeaderLabel ==
    [ldhName |-> "Domain Name: ", handle |-> "Handle: ", status |-> "Status: ",
     port43 |-> "Whois Server: ", lang |-> "Lang: "]

HeaderLineOf ==
    [ldhName |-> 2, handle |-> 3, status |-> 4, port43 |-> 5, lang |-> 6]

AbsentOrEmptyList(o, f) == ~Has(o, f) \/ Len(o[f]) = 0

HeaderShowsNA(data, text) ==
    \A f \in DOMAIN HeaderLabel :
        (IF f = "status" THEN AbsentOrEmptyList(data, f) ELSE ~Has(data, f))
            => text[HeaderLineOf[f]] = <<HeaderLabel[f], "N/A">>

ContactsShowNA(data, text) ==
    (Has(data, "entities") /\ Len(data.entities) > 0) =>
        \A r \in DOMAIN ContactRoles :
            LET e == LastWithRole(data.entities, ContactRoles[r])
            IN  (e > 0 /\ ~Has(data.entities[e], "handle")) =>
                    \A i \in LinesEqual(text, ContactHeading(ContactRoles[r])) :
                        text[i + 1] = <<"Handle: ", "N/A">>

NameserversShowNA(data, text) ==
    (Has(data, "nameservers") /\ Len(data.nameservers) > 0) =>
        \A s \in LinesEqual(text, <<"--- Nameservers ---">>) :
            \A k \in DOMAIN data.nameservers :
                LET ns   == data.nameservers[k]
                    from == s + 5 * (k - 1)
                    ip(f) == ~Has(ns, "ipAddresses")
                             \/ AbsentOrEmptyList(ns.ipAddresses, f)
                IN  /\ ~Has(ns, "ldhName") => text[from + 1] = <<"Nameserver: ", "N/A">>
                    /\ ~Has(ns, "handle") => text[from + 2] = <<"Handle: ", "N/A">>
                    /\ ip("v4") => text[from + 3] = <<"IPv4: ", "N/A">>
                    /\ ip("v6") => text[from + 4] = <<"IPv6: ", "N/A">>

\* C4: every labelled field of the report (Domain Name, Handle, Status, Whois
\* Server, Lang, each rendered contact's Handle, each nameserver's name,
\* Handle, IPv4 and IPv6) that is absent, or an empty list, in the response
\* is shown as "N/A".
C4_AbsentFieldsShowNA ==
    result # Null =>
        /\ HeaderShowsNA(result, formatRDAPResult(result))
        /\ ContactsShowNA(result, formatRDAPResult(result))
        /\ NameserversShowNA(result, formatRDAPResult(result))

Surfaced == loading = FALSE /\ (result # Null \/ error # "")

\* C5: once fetchRDAP has issued a request, and given that the network settles
\* it, the lookup completes, and completes into a state with loading = false
\* in which result is non-null or error is a non-empty message.
C5_LookupSurfacesOutcome ==
    \A i \in 1..MaxCalls :
        (i \in DOMAIN lookups) ~>
            (i \in DOMAIN lookups /\ lookups[i].pc = "done" /\ Surfaced)

C5_Witness ==
    /\ Len(lookups) >= 2
    /\ InFlight = {}
    /\ Surfaced

\* C6: an invocation of fetchRDAP with a non-empty domain issues exactly one
\* GET, to https://rdap.org/domain/<domain>; with an empty domain it issues
\* none and changes none of loading, error, result, searched; and no request
\* is ever issued other than by an invocation.
C6_OneRequestPerInvocation ==
    [][/\ (calls' # calls /\ domain # "") =>
            requests' = Append(requests, "https://rdap.org/domain/" \o domain)
       /\ (calls' # calls /\ domain = "") =>
            UNCHANGED <<requests, loading, error, result, searched>>
       /\ calls' = calls => requests' = requests]_vars

C6_Witness ==
    /\ Len(requests) >= 1
    /\ calls > Len(requests)
    /\ InFlight = {}

\* C7: a failed lookup ends in the error message of its failure and leaves
\* result as the lookup's start left it, null.
C7_FailureSetsErrorOnly ==
    [][/\ (\E i \in DOMAIN lookups : FetchNotOk(i)) =>
            (error' = "Domain not found or RDAP lookup failed" /\ result' = Null)
       /\ \A err \in FetchThrown :
            (\E i \in DOMAIN lookups : FetchReject(i, err)) =>
                /\ error' = (IF err.isError THEN err.message ELSE "An error occurred")
                /\ result' = Null
       /\ \A err \in JsonThrown :
            (\E i \in DOMAIN lookups : JsonReject(i, err)) =>
                /\ error' = (IF err.isError THEN err.message ELSE "An error occurred")
                /\ result' = Null]_vars

\* the indexes of the lines "<ROLE> Contact:" of a report
ContactHeadings(text) ==
    {i \in DOMAIN text : Len(text[i]) = 2 /\ text[i][2] = " Contact:"}

ContactsAsGrouped(data, text) ==
    LET last(r) == LastWithRole(data.entities, ContactRoles[r])
        at(r)   == LinesEqual(text, ContactHeading(ContactRoles[r]))
    IN  /\ \A r \in DOMAIN ContactRoles :
            /\ Cardinality(at(r)) = (IF last(r) > 0 THEN 1 ELSE 0)
            /\ \A i \in at(r) :
                 /\ text[i + 1][1] = "Handle: "
                 /\ Has(data.entities[last(r)], "handle") =>
                        text[i + 1][2] = data.entities[last(r)].handle
                 /\ Has(data.entities[last(r)], "vcardArray") =>
                        \A j \in 1..Len(VCardLines(data.entities[last(r)])) :
                            text[i + 1 + j] = VCardLines(data.entities[last(r)])[j]
        /\ \A r1, r2 \in DOMAIN ContactRoles :
             r1 < r2 => \A i \in at(r1), j \in at(r2) : i < j
        /\ Cardinality(ContactHeadings(text)) =
             Cardinality({r \in DOMAIN ContactRoles : last(r) > 0})

\* C8: in the Contact Information section, each of the roles registrant,
\* technical, registrar gets at most one block, that of the LAST entity of
\* the list carrying the role; the blocks come in the order registrant,
\* technical, registrar; entities with none of the three roles get no block.
C8_LastEntityPerRole ==
    (result # Null /\ Has(result, "entities") /\ Len(result.entities) > 0) =>
        ContactsAsGrouped(result, formatRDAPResult(result))

C8_Witness ==
    /\ saved # Null
    /\ result # Null
    /\ saved.text = formatRDAPResult(result)
    /\ Has(result, "entities")
    /\ Len(result.entities) = 2
    /\ result.entities[1] = [handle |-> "E1", roles |-> <<"registrar", "registrant">>]
    /\ result.entities[2] = [handle |-> "E2", roles |-> <<"registrant">>]

\* C9: error and result are never both set.
C9_ErrorXorResult == ~(result # Null /\ error # "")

\* C10: loading is true exactly while a request issued by fetchRDAP has not
\* completed.
C10_LoadingIffInFlight == loading <=> InFlight # {}

====
